---- MODULE Spec2Model ----
(***************************************************************************)
(* Function Navigator: the parser registry, the per-document parse cache   *)
(* (an insertion-ordered Map used as an LRU) and the debounced refresh     *)
(* scheduler of FunctionTreeDataProvider.                                  *)
(***************************************************************************)
EXTENDS Integers, Sequences, FiniteSets, TLC

\* ------------------------------------------------------------ bounds
\* Background documents: opened once each, in order, and never edited.
NumBackground == 10
\* Highest document.version an edited document reaches.
MaxVersion == 2
\* Number of registerParser calls explored by SpecRegistry.
MaxRegistered == 2
\* Pieces of text an extractor input is assembled from.
MaxPieces == 4
\* Constructs in a parsed JS/TS source.
MaxNodes == 4
\* Lines of a Python source.
MaxLines == 4

\* ------------------------------------------------- program constants
DefaultDebounceMs == 250
DefaultMaxCacheEntries == 500
MinDebounceMs == 25
MaxDebounceMs == 5000
MinCacheEntries == 10
MaxCacheEntriesLimit == 20000

Min(a, b) == IF a < b THEN a ELSE b
Max(a, b) == IF a > b THEN a ELSE b

\* ------------------------------------------------------- documents
\* Document keys stand for document.uri.toString(): distinct non-empty
\* strings.  Keys 1 and 2 are documents the user edits, the others are
\* background documents.
EditedKeys == {1, 2}
FirstBackground == Cardinality(EditedKeys) + 1
BackgroundKeys == {k \in FirstBackground..(NumBackground + FirstBackground - 1) : TRUE}
Keys == EditedKeys \cup BackgroundKeys

\* document.languageId of each document of the workspace.
LanguageOf(k) == IF k = 1 THEN "typescript" ELSE IF k = 2 THEN "rust" ELSE "php"

\* ------------------------------------------------------- ParserRegistry
NoParser == [inst |-> 0, languageId |-> "undefined"]
PhpParser == [inst |-> 1, languageId |-> "php"]
JsTsParser == [inst |-> 2, languageId |-> "javascript"]
PythonParser == [inst |-> 3, languageId |-> "python"]
InitialParsers == <<PhpParser, JsTsParser, PythonParser>>

\* Array.prototype.find: the first element that matches, else undefined.
Find(ps, id) ==
  IF \E i \in 1..Len(ps) : ps[i].languageId = id
  THEN ps[CHOOSE i \in 1..Len(ps) :
            /\ ps[i].languageId = id
            /\ \A j \in 1..(i - 1) : ps[j].languageId # id]
  ELSE NoParser

\* Property names every object literal inherits from Object.prototype;
\* aliasMap[languageId] is truthy for them although they are no alias.
ObjectPrototypeKeys == {"constructor", "toString", "valueOf", "hasOwnProperty"}

\* aliasMap[languageId]
aliasMap(languageId) ==
  IF languageId \in {"typescriptreact", "javascriptreact", "svelte"} THEN "javascript"
  ELSE IF languageId \in ObjectPrototypeKeys THEN "<inherited>"
  ELSE "undefined"

getParser_FallsBackToFirst(ps, languageId) ==
  IF languageId \in {"javascript", "typescript"} THEN Find(ps, "javascript")
  ELSE IF languageId = "vue" /\ Find(ps, "javascript") # NoParser
       THEN Find(ps, "javascript")
  ELSE IF aliasMap(languageId) # "undefined" THEN Find(ps, aliasMap(languageId))
  ELSE IF Find(ps, languageId) # NoParser THEN Find(ps, languageId)
  ELSE ps[1]

getParser(ps, languageId) ==
  IF languageId \in {"javascript", "typescript"} THEN Find(ps, "javascript")
  ELSE IF languageId = "vue" /\ Find(ps, "javascript") # NoParser
       THEN Find(ps, "javascript")
  ELSE IF aliasMap(languageId) # "undefined" THEN Find(ps, aliasMap(languageId))
  ELSE Find(ps, languageId)

registerParser_Unshift(ps, parser) == <<parser>> \o ps

registerParser(ps, parser) == Append(ps, parser)

\* ------------------------------------------------------- Map helpers
\* parseCache is a JavaScript Map: a sequence of entries in insertion order.
MapHas(m, key) == \E i \in 1..Len(m) : m[i].key = key
MapGet(m, key) == m[CHOOSE i \in 1..Len(m) : m[i].key = key]
MapDelete(m, key) == SelectSeq(m, LAMBDA e : e.key # key)
\* Map.prototype.set: an existing key keeps its position, a new key goes last.
MapSet(m, key, version, functions) ==
  IF MapHas(m, key)
  THEN [i \in 1..Len(m) |->
          IF m[i].key = key
          THEN [key |-> key, version |-> version, functions |-> functions]
          ELSE m[i]]
  ELSE Append(m, [key |-> key, version |-> version, functions |-> functions])
MapKeys(m) == [i \in 1..Len(m) |-> m[i].key]
KeySet(m) == {m[i].key : i \in 1..Len(m)}

touchCacheKey_InPlace(m, key) == m

\* const v = get(key); if (!v) return; delete(key); set(key, v)
touchCacheKey(m, key) ==
  IF ~MapHas(m, key) THEN m
  ELSE LET v == MapGet(m, key)
       IN MapSet(MapDelete(m, key), key, v.version, v.functions)

RECURSIVE enforceCacheLimit_DropsNewest(_, _)
enforceCacheLimit_DropsNewest(m, cap) ==
  IF Len(m) > cap
  THEN enforceCacheLimit_DropsNewest(SubSeq(m, 1, Len(m) - 1), cap)
  ELSE m

RECURSIVE enforceCacheLimit_OffByOne(_, _)
enforceCacheLimit_OffByOne(m, cap) ==
  IF Len(m) > cap + 1
  THEN enforceCacheLimit_OffByOne(MapDelete(m, Head(m).key), cap)
  ELSE m

\* while (size > maxCacheEntries) delete the first key of the Map.  The
\* `if (!oldestKey) break` guard never triggers: keys are non-empty strings.
RECURSIVE enforceCacheLimit(_, _)
enforceCacheLimit(m, cap) ==
  IF Len(m) > cap
  THEN enforceCacheLimit(MapDelete(m, Head(m).key), cap)
  ELSE m

\* ------------------------------------------------------- settings
\* A configured value as JavaScript sees it.
Missing == [kind |-> "missing", n |-> 0]
NotANumber == [kind |-> "string", n |-> 0]
PosInfinity == [kind |-> "posinf", n |-> 0]
NegInfinity == [kind |-> "neginf", n |-> 0]
BoolTrue == [kind |-> "boolean", n |-> 1]
Num(n) == [kind |-> "number", n |-> n]

\* Number(cfg ?? prev): undefined/null fall back to the previous value, true
\* converts to 1, a non-numeric string to NaN.
ToNumber(cfg, prev) ==
  IF cfg.kind = "missing" THEN [finite |-> TRUE, n |-> prev]
  ELSE IF cfg.kind \in {"number", "boolean"} THEN [finite |-> TRUE, n |-> cfg.n]
  ELSE [finite |-> FALSE, n |-> 0]

Clamp_NoFloor(lo, hi, cfg, prev) ==
  LET v == ToNumber(cfg, prev) IN Min(hi, IF v.finite THEN v.n ELSE prev)

\* Math.max(lo, Math.min(hi, isFinite(v) ? v : prev))
Clamp(lo, hi, cfg, prev) ==
  LET v == ToNumber(cfg, prev)
  IN Max(lo, Min(hi, IF v.finite THEN v.n ELSE prev))

\* ------------------------------------------------------- state
VARIABLES
  parsers,          \* ParserRegistry.parsers
  lastLookup,       \* the last getParser call and what it returned
  parseCache,       \* FunctionTreeDataProvider.parseCache
  debounceTimers,   \* FunctionTreeDataProvider.debounceTimers: key -> handle, 0 = no entry
  hostTimers,       \* timers armed with setTimeout and neither fired nor cleared
  debounceMs,
  maxCacheEntries,
  docVersion,       \* document.version of every document
  bgOpened,         \* how many background documents have been requested
  last,             \* the operation that completed last and what it did
  recency,          \* cached keys ordered by their last cache hit or cache write
  sinceNotify,      \* ms since the last change notification of a key with a live timer
  sinceArm,         \* ms since the last change notification of a key that armed a timer
  burst,            \* notifications that armed a timer since the key's last fire or close
  spaced,           \* every notification since the pending timer's burst began came
                    \* less than debounceMs after the one before it
  lastCfg,          \* the configured values the last reloadSettings read
  content,          \* the input handed to an extractor, or the settings a view reads
  output,           \* what the extractor, getChildren or getTreeItem call returned
  pending,          \* per request: the await it is suspended at and its locals
  parses            \* per key: extractor runs at a revision since the key was last removed

registryVars == <<parsers, lastLookup>>
providerVars == <<parseCache, debounceTimers, hostTimers, debounceMs, maxCacheEntries>>
envVars == <<docVersion, bgOpened, lastCfg>>
extractVars == <<content, output>>
requestVars == <<pending, parses>>
vars == <<parsers, lastLookup, parseCache, debounceTimers, hostTimers, debounceMs,
          maxCacheEntries, docVersion, bgOpened, last, recency, sinceNotify,
          sinceArm, burst, spaced, lastCfg, content, output, pending, parses>>

NoKey == 1 - 1
NoLookup == [languageId |-> "undefined", result |-> NoParser, registered |-> 0]
\* What an operation did: the value it returned, whether it ran an
\* extractor, the refresh signals it issued, the keys it evicted, the timers
\* it cleared, and (for a timer callback) the timing of the fired timer.
Done(op, key, result, parsed, refreshes, evicted, cleared) ==
  [op |-> op, key |-> key, result |-> result, parsed |-> parsed,
   refreshes |-> refreshes, evicted |-> evicted, cleared |-> cleared,
   sinceNotify |-> 0, sinceArm |-> 0, delay |-> 0, burst |-> 0, spaced |-> TRUE]
NoOp == Done("none", NoKey, <<>>, FALSE, 0, {}, 0)

\* ------------------------------------------------------- extraction
\* parser.parse(document.getText()) followed by the shape normalisation of
\* parseDocument.  The text of document k at version v is abstract; the
\* declarations are named getItem, setItem and reset, and their lines tell
\* the text they were extracted from.
DocNames == <<<<"get", "Item">>, <<"set", "Item">>, <<"re", "set">>>>
ParserParse(parser, k, v) ==
  [i \in 1..Len(DocNames) |->
     [name |-> DocNames[i], line |-> IF i = 1 THEN k ELSE k + v + i - 2,
      parent |-> "undefined", type |-> "undefined"]]

CacheHit_AnyVersion(m, key, version) == MapHas(m, key)

CacheHit_Never(m, key, version) == FALSE

\* cached && cached.version === document.version
CacheHit(m, key, version) == MapHas(m, key) /\ MapGet(m, key).version = version

StoreParsed_SkipsEmpty(m, key, version, functions) ==
  IF functions = <<>> THEN MapDelete(m, key)
  ELSE MapSet(MapDelete(m, key), key, version, functions)

StoreParsed_Torn(m, key, version, functions) ==
  MapSet(MapDelete(m, key), key, version, <<>>)

\* if (has(key)) delete(key); set(key, {version, functions})
StoreParsed(m, key, version, functions) ==
  MapSet(MapDelete(m, key), key, version, functions)

\* set(key, {version, functions: []}) with no delete before it
StoreNoParser(m, key, version) == MapSet(m, key, version, <<>>)

Touched(r, key) == Append(SelectSeq(r, LAMBDA x : x # key), key)
Among(r, m) == SelectSeq(r, LAMBDA x : MapHas(m, x))

\* ------------------------------------------------------- host timers
TimerIds(timers) == {t.id : t \in timers}
NewTimerId(timers) ==
  CHOOSE i \in 1..(Cardinality(timers) + 1) : i \notin TimerIds(timers)
clearTimeout(timers, id) == {t \in timers : t.id # id}
setTimeout(timers, id, key, delay) ==
  timers \cup {[id |-> id, key |-> key, remaining |-> delay, delay |-> delay]}
TimersOf(timers, key) == {t \in timers : t.key = key}

CancelExisting_Skip(timers, existing) == timers

\* if (existing) clearTimeout(existing)
CancelExisting(timers, existing) ==
  IF existing # 0 THEN clearTimeout(timers, existing) ELSE timers

ClearClosed_Skip(timers, timer) == timers

\* if (timer) clearTimeout(timer)
ClearClosed(timers, timer) ==
  IF timer # 0 THEN clearTimeout(timers, timer) ELSE timers

TimerMapDelete_Keep(m, key) == m

\* this.debounceTimers.delete(key)
TimerMapDelete(m, key) == [m EXCEPT ![key] = 0]

\* ------------------------------------------------------- operations
reloadSettings_ClearsCache(cfgDebounce, cfgCache, throws) ==
  /\ parseCache' = <<>>
  /\ last' = Done("reloadSettings", NoKey, <<>>, FALSE, 0, KeySet(parseCache), 0)
  /\ recency' = <<>>
  /\ UNCHANGED <<debounceTimers, hostTimers, debounceMs, maxCacheEntries,
                 sinceNotify, sinceArm, burst, spaced>>

\* reloadSettings(): cfgDebounce and cfgCache are the configured values,
\* throws says whether reading the configuration raised.
reloadSettings(cfgDebounce, cfgCache, throws) ==
  IF throws
  THEN /\ UNCHANGED providerVars
       /\ last' = Done("reloadSettings", NoKey, <<>>, FALSE, 0, {}, 0)
       /\ UNCHANGED <<recency, sinceNotify, sinceArm, burst, spaced>>
  ELSE LET cap == Clamp(MinCacheEntries, MaxCacheEntriesLimit, cfgCache, maxCacheEntries)
           after == enforceCacheLimit(parseCache, cap)
       IN /\ debounceMs' = Clamp(MinDebounceMs, MaxDebounceMs, cfgDebounce, debounceMs)
          /\ maxCacheEntries' = cap
          /\ parseCache' = after
          /\ last' = Done("reloadSettings", NoKey, <<>>, FALSE, 0,
                          KeySet(parseCache) \ KeySet(after), 0)
          /\ recency' = Among(recency, after)
          /\ UNCHANGED <<debounceTimers, hostTimers, sinceNotify, sinceArm, burst, spaced>>

\* parseDocument when parser.parse, if it is called, ends as raw says: it
\* returns a list ("list"), returns something that is no array ("nonlist"),
\* or throws ("throws").
parseDocumentGiven(k, raw) ==
  LET version == docVersion[k]
      parser == getParser(parsers, LanguageOf(k))
      functions == IF parser = NoParser \/ raw # "list" THEN <<>>
                   ELSE ParserParse(parser, k, version)
      stored == IF parser = NoParser
                THEN StoreNoParser(parseCache, k, version)
                ELSE StoreParsed(parseCache, k, version, functions)
      after == enforceCacheLimit(stored, maxCacheEntries)
  IN /\ IF CacheHit(parseCache, k, version)
        THEN /\ parseCache' = touchCacheKey(parseCache, k)
             /\ last' = Done("parseDocument", k, MapGet(parseCache, k).functions,
                             FALSE, 0, {}, 0)
        ELSE /\ parseCache' = after
             /\ last' = Done("parseDocument", k, functions, parser # NoParser, 0,
                             KeySet(stored) \ KeySet(after), 0)
     /\ recency' = Among(Touched(recency, k), parseCache')
     /\ UNCHANGED <<debounceTimers, hostTimers, debounceMs, maxCacheEntries,
                    sinceNotify, sinceArm, burst, spaced>>

\* parseDocument with one of the built-in extractors, which return lists.
parseDocument(k) == parseDocumentGiven(k, "list")

scheduleRefreshForDocument(k) ==
  IF CacheHit(parseCache, k, docVersion[k])
  THEN /\ parseCache' = touchCacheKey(parseCache, k)
       /\ last' = Done("scheduleRefreshForDocument", k, <<>>, FALSE, 1, {}, 0)
       /\ recency' = Among(Touched(recency, k), parseCache')
       /\ sinceNotify' = [sinceNotify EXCEPT ![k] = 0]
       /\ spaced' = [spaced EXCEPT ![k] =
            TimersOf(hostTimers, k) = {} \/ (@ /\ sinceNotify[k] < debounceMs)]
       /\ UNCHANGED <<debounceTimers, hostTimers, debounceMs, maxCacheEntries,
                      sinceArm, burst>>
  ELSE LET live == CancelExisting(hostTimers, debounceTimers[k])
           t == NewTimerId(live)
       IN /\ hostTimers' = setTimeout(live, t, k, debounceMs)
          /\ debounceTimers' = [debounceTimers EXCEPT ![k] = t]
          /\ last' = Done("scheduleRefreshForDocument", k, <<>>, FALSE, 0, {},
                          Cardinality(hostTimers \ live))
          /\ sinceNotify' = [sinceNotify EXCEPT ![k] = 0]
          /\ sinceArm' = [sinceArm EXCEPT ![k] = 0]
          /\ burst' = [burst EXCEPT ![k] = Min(@ + 1, 2)]
          /\ spaced' = [spaced EXCEPT ![k] =
               TimersOf(hostTimers, k) = {} \/ sinceNotify[k] >= debounceMs \/ @]
          /\ UNCHANGED <<parseCache, debounceMs, maxCacheEntries, recency>>

timerCallback_NoRefresh(t) ==
  /\ t \in hostTimers
  /\ t.remaining = 0
  /\ hostTimers' = hostTimers \ {t}
  /\ debounceTimers' = TimerMapDelete(debounceTimers, t.key)
  /\ last' = Done("timerCallback", t.key, <<>>, FALSE, 0, {}, 0)
  /\ sinceNotify' = [sinceNotify EXCEPT ![t.key] = 0]
  /\ sinceArm' = [sinceArm EXCEPT ![t.key] = 0]
  /\ burst' = [burst EXCEPT ![t.key] = 0]
  /\ spaced' = [spaced EXCEPT ![t.key] = TRUE]
  /\ UNCHANGED <<parseCache, debounceMs, maxCacheEntries, recency>>

\* The setTimeout callback of scheduleRefreshForDocument, run by the host
\* when the timer is due.
timerCallback(t) ==
  /\ t \in hostTimers
  /\ t.remaining = 0
  /\ hostTimers' = hostTimers \ {t}
  /\ debounceTimers' = TimerMapDelete(debounceTimers, t.key)
  /\ last' = [Done("timerCallback", t.key, <<>>, FALSE, 1, {}, 0)
                EXCEPT !.sinceNotify = sinceNotify[t.key],
                       !.sinceArm = sinceArm[t.key],
                       !.delay = t.delay,
                       !.burst = burst[t.key],
                       !.spaced = spaced[t.key]]
  /\ sinceNotify' = [sinceNotify EXCEPT ![t.key] = 0]
  /\ sinceArm' = [sinceArm EXCEPT ![t.key] = 0]
  /\ burst' = [burst EXCEPT ![t.key] = 0]
  /\ spaced' = [spaced EXCEPT ![t.key] = TRUE]
  /\ UNCHANGED <<parseCache, debounceMs, maxCacheEntries, recency>>

handleDocumentClosed(k) ==
  /\ parseCache' = MapDelete(parseCache, k)
  /\ hostTimers' = ClearClosed(hostTimers, debounceTimers[k])
  /\ debounceTimers' = TimerMapDelete(debounceTimers, k)
  /\ last' = Done("handleDocumentClosed", k, <<>>, FALSE, 0, {},
                  Cardinality(hostTimers \ hostTimers'))
  /\ sinceNotify' = [sinceNotify EXCEPT ![k] = 0]
  /\ sinceArm' = [sinceArm EXCEPT ![k] = 0]
  /\ burst' = [burst EXCEPT ![k] = 0]
  /\ spaced' = [spaced EXCEPT ![k] = TRUE]
  /\ recency' = SelectSeq(recency, LAMBDA x : x # k)
  /\ UNCHANGED <<debounceMs, maxCacheEntries>>

\* ------------------------------------------------------- environment
\* The user edits document k: the host raises document.version.
DocumentChanged(k) ==
  /\ docVersion[k] < MaxVersion
  /\ docVersion' = [docVersion EXCEPT ![k] = @ + 1]
  /\ last' = NoOp
  /\ UNCHANGED <<providerVars, registryVars, bgOpened, lastCfg, recency,
                 sinceNotify, sinceArm, burst, spaced, extractVars, requestVars>>

\* Time passes: one tick, or less when a timer is due sooner.  A due timer
\* fires before time moves on.
TickMs == MinDebounceMs
NextDue(timers) == CHOOSE r \in {t.remaining : t \in timers} :
                     \A t \in timers : r <= t.remaining
Tick ==
  /\ hostTimers # {}
  /\ \A t \in hostTimers : t.remaining > 0
  /\ LET d == Min(TickMs, NextDue(hostTimers))
     IN /\ hostTimers' = {[t EXCEPT !.remaining = @ - d] : t \in hostTimers}
        /\ sinceNotify' = [k \in Keys |->
             IF TimersOf(hostTimers, k) # {} THEN sinceNotify[k] + d ELSE sinceNotify[k]]
        /\ sinceArm' = [k \in Keys |->
             IF TimersOf(hostTimers, k) # {} THEN sinceArm[k] + d ELSE sinceArm[k]]
  /\ UNCHANGED <<parseCache, debounceTimers, debounceMs, maxCacheEntries,
                 registryVars, envVars, last, recency, burst, spaced,
                 extractVars, requestVars>>

\* ------------------------------------------------------- specifications
\* new FunctionTreeDataProvider(): the field initialisers, then reloadSettings().
Constructed(cfgDebounce, cfgCache) ==
  /\ parseCache = <<>>
  /\ debounceTimers = [k \in Keys |-> 0]
  /\ hostTimers = {}
  /\ debounceMs = Clamp(MinDebounceMs, MaxDebounceMs, cfgDebounce, DefaultDebounceMs)
  /\ maxCacheEntries =
       Clamp(MinCacheEntries, MaxCacheEntriesLimit, cfgCache, DefaultMaxCacheEntries)

InitRest ==
  /\ parsers = InitialParsers
  /\ lastLookup = NoLookup
  /\ docVersion = [k \in Keys |-> 1]
  /\ bgOpened = 0
  /\ last = NoOp
  /\ recency = <<>>
  /\ sinceNotify = [k \in Keys |-> 0]
  /\ sinceArm = [k \in Keys |-> 0]
  /\ burst = [k \in Keys |-> 0]
  /\ spaced = [k \in Keys |-> TRUE]

\* No extractor has been called and no request is in flight.
NoContent == <<>>
NoOutput == [op |-> "none", value |-> <<>>, threw |-> FALSE, path |-> "none"]
NoParses == [k \in Keys |-> [version |-> 1 - 1, count |-> 1 - 1]]
RequestIds == {1, 2}
Idle == [kind |-> "none", key |-> NoKey, stage |-> "idle", functions |-> <<>>,
         version |-> 1 - 1]
InitIdle ==
  /\ content = NoContent
  /\ output = NoOutput
  /\ pending = [r \in RequestIds |-> Idle]
  /\ parses = NoParses

NextBackground == bgOpened + FirstBackground

\* getChildren / getTreeItem reach parseDocument for an opened document.
Request(k) ==
  /\ parseDocument(k)
  /\ UNCHANGED <<registryVars, envVars>>
  /\ UNCHANGED <<extractVars, requestVars>>

\* The same request for the next background document.
OpenBackground ==
  /\ bgOpened < NumBackground
  /\ parseDocument(NextBackground)
  /\ bgOpened' = bgOpened + 1
  /\ UNCHANGED <<registryVars, docVersion, lastCfg>>
  /\ UNCHANGED <<extractVars, requestVars>>

\* onDidChangeTextDocument
Notify(k) ==
  /\ scheduleRefreshForDocument(k)
  /\ UNCHANGED <<registryVars, envVars>>
  /\ UNCHANGED <<extractVars, requestVars>>

\* onDidCloseTextDocument
Close(k) ==
  /\ handleDocumentClosed(k)
  /\ UNCHANGED <<registryVars, envVars>>
  /\ UNCHANGED <<extractVars, requestVars>>

Fire(t) ==
  /\ timerCallback(t)
  /\ UNCHANGED <<registryVars, envVars>>
  /\ UNCHANGED <<extractVars, requestVars>>

\* onDidChangeConfiguration
Reload(d, c, throws) ==
  /\ reloadSettings(d, c, throws)
  /\ UNCHANGED <<registryVars, envVars>>
  /\ UNCHANGED <<extractVars, requestVars>>

\* --- Spec: a TypeScript document the user edits and a Rust document, the
\* refresh scheduler and time.
SpecEdited == {1}
CfgDebounce == {Num(10), Num(50)}
CfgCache == {Missing}

Init ==
  /\ \E d \in CfgDebounce, c \in CfgCache : Constructed(d, c)
  /\ lastCfg = <<Missing, Missing>>
  /\ InitRest
  /\ InitIdle

Next ==
  \/ \E k \in SpecEdited : DocumentChanged(k)
  \/ \E k \in EditedKeys : Request(k)
  \/ \E k \in EditedKeys : Notify(k)
  \/ \E k \in EditedKeys : Close(k)
  \/ \E t \in hostTimers : Fire(t)
  \/ Tick
  \/ \E d \in CfgDebounce, c \in CfgCache, throws \in BOOLEAN : Reload(d, c, throws)

Spec == Init /\ [][Next]_vars

\* --- SpecLive: the two documents under one debounce setting, with a host
\* that lets time pass and runs the callbacks of due timers.
InitLive ==
  /\ Constructed(Num(50), Missing)
  /\ lastCfg = <<Missing, Missing>>
  /\ InitRest
  /\ InitIdle

NextLive ==
  \/ \E k \in SpecEdited : DocumentChanged(k)
  \/ \E k \in EditedKeys : Request(k)
  \/ \E k \in EditedKeys : Notify(k)
  \/ \E k \in EditedKeys : Close(k)
  \/ \E t \in hostTimers : Fire(t)
  \/ Tick

SpecLive ==
  /\ InitLive
  /\ [][NextLive]_vars
  /\ WF_vars(Tick)
  /\ WF_vars(\E t \in hostTimers : Fire(t))

\* --- SpecLru: the Rust document, edited, among the background documents,
\* enough of them to fill the cache beyond its smallest capacity.
LruKeys == {2}
LruCfgDebounce == {Num(10)}
LruCfgCache == {Missing, Num(5)}

InitLru ==
  /\ \E d \in LruCfgDebounce, c \in LruCfgCache : Constructed(d, c)
  /\ lastCfg = <<Missing, Missing>>
  /\ InitRest
  /\ InitIdle

NextLru ==
  \/ \E k \in LruKeys : DocumentChanged(k)
  \/ \E k \in LruKeys : Request(k)
  \/ OpenBackground
  \/ \E k \in LruKeys : Notify(k)
  \/ \E k \in LruKeys : Close(k)
  \/ \E t \in hostTimers : Fire(t)
  \/ Tick
  \/ \E d \in LruCfgDebounce, c \in LruCfgCache, throws \in BOOLEAN : Reload(d, c, throws)

SpecLru == InitLru /\ [][NextLru]_vars

\* --- SpecSettings: reloadSettings over the kinds of configured value.
SettingsCfg ==
  {Missing, NotANumber, PosInfinity, NegInfinity, BoolTrue, Num(-1), Num(24),
   Num(600), Num(5001), Num(20001)}

InitSettings ==
  /\ \E d \in SettingsCfg, c \in SettingsCfg :
       /\ Constructed(d, c)
       /\ lastCfg = <<d, c>>
  /\ InitRest
  /\ InitIdle

ReloadRecorded(d, c, throws) ==
  /\ reloadSettings(d, c, throws)
  /\ lastCfg' = <<d, c>>
  /\ UNCHANGED <<registryVars, docVersion, bgOpened>>
  /\ UNCHANGED <<extractVars, requestVars>>

NextSettings ==
  \E d \in SettingsCfg, c \in SettingsCfg, throws \in BOOLEAN : ReloadRecorded(d, c, throws)

SpecSettings == InitSettings /\ [][NextSettings]_vars

\* --- SpecRegistry: the registry under registerParser and getParser calls.
RegLanguageIds == {"javascript", "typescript", "svelte", "rust", "php", "constructor"}
ProbeIds ==
  {"php", "python", "javascript", "typescript", "javascriptreact", "typescriptreact",
   "svelte", "vue", "rust", "go", "plaintext", "constructor"}

InitRegistry ==
  /\ Constructed(Missing, Missing)
  /\ lastCfg = <<Missing, Missing>>
  /\ InitRest
  /\ InitIdle

Register(languageId) ==
  /\ Len(parsers) < Len(InitialParsers) + MaxRegistered
  /\ parsers' = registerParser(parsers, [inst |-> Len(parsers) + 1,
                                          languageId |-> languageId])
  /\ UNCHANGED <<lastLookup, providerVars, envVars, last, recency, sinceNotify,
                 sinceArm, burst, spaced, extractVars, requestVars>>

Lookup(languageId) ==
  /\ lastLookup' = [languageId |-> languageId,
                    result |-> getParser(parsers, languageId),
                    registered |-> Len(parsers)]
  /\ UNCHANGED <<parsers, providerVars, envVars, last, recency, sinceNotify,
                 sinceArm, burst, spaced, extractVars, requestVars>>

NextRegistry ==
  \/ \E l \in RegLanguageIds : Register(l)
  \/ \E l \in ProbeIds : Lookup(l)

SpecRegistry == InitRegistry /\ [][NextRegistry]_vars

\* ------------------------------------------------------- extractor inputs
\* A text is a sequence of lexemes; LF is the newline character.
LF == "LF"
RECURSIVE Flatten(_)
Flatten(ps) == IF ps = <<>> THEN <<>> ELSE Head(ps) \o Flatten(Tail(ps))
TextsOf(pieces, n) ==
  {Flatten(ps) : ps \in UNION {[1..m -> pieces] : m \in 0..n}}
\* content.substring(0, index).split('\n').length
SplitLength(text, index) ==
  Cardinality({i \in 1..(index - 1) : text[i] = LF}) + 1
Record(name, line, parent, type) ==
  [name |-> name, line |-> line, parent |-> parent, type |-> type]
Returned(op, value, threw, path) ==
  [op |-> op, value |-> value, threw |-> threw, path |-> path]

\* ------------------------------------------------------- PhpParser
\* /function\s+([a-zA-Z_\x7f-\xff][a-zA-Z0-9_\x7f-\xff]*)\s*\(/g over lexemes:
\* the keyword (itself made of letters), blanks, letters, digits and "(".
IsSpace(c) == c \in {" ", LF}
IsIdStart(c) == c \in {"a", "b", "function"}
IsIdChar(c) == IsIdStart(c) \/ c = "1"
RECURSIVE SkipSpace(_, _)
SkipSpace(text, i) ==
  IF i <= Len(text) /\ IsSpace(text[i]) THEN SkipSpace(text, i + 1) ELSE i
RECURSIVE SkipId(_, _)
SkipId(text, i) ==
  IF i <= Len(text) /\ IsIdChar(text[i]) THEN SkipId(text, i + 1) ELSE i
\* The match of the pattern that starts at index i, if there is one.
PhpMatchAt(text, i) ==
  LET j == SkipSpace(text, i + 1)
      e == SkipId(text, j)
      p == SkipSpace(text, e)
  IN [ok |-> /\ text[i] = "function"
             /\ j > i + 1
             /\ j <= Len(text) /\ IsIdStart(text[j])
             /\ p <= Len(text) /\ text[p] = "(",
      name |-> SubSeq(text, j, e - 1),
      end |-> p + 1]

PhpLineOf_OneBased(text, index) == SplitLength(text, index)

\* content.substring(0, index).split('\n').length - 1
PhpLineOf(text, index) == SplitLength(text, index) - 1

\* while ((match = functionRegex.exec(content)) !== null) functions.push(...)
RECURSIVE PhpExecLoop(_, _)
PhpExecLoop(text, lastIndex) ==
  IF lastIndex > Len(text) THEN <<>>
  ELSE LET m == PhpMatchAt(text, lastIndex)
       IN IF m.ok
          THEN <<Record(m.name, PhpLineOf(text, lastIndex), "undefined", "undefined")>>
                 \o PhpExecLoop(text, m.end)
          ELSE PhpExecLoop(text, lastIndex + 1)
PhpParserParse(text) == PhpExecLoop(text, 1)

\* --- SpecPhp: PhpParser.parse over texts.
PhpPieces ==
  {<<"function">>, <<" ">>, <<LF>>, <<"a">>, <<"1">>, <<"(">>,
   <<"function", " ", "a", "(">>, <<"function", " ", "b", "(">>}
InitExtractor ==
  /\ Constructed(Missing, Missing)
  /\ lastCfg = <<Missing, Missing>>
  /\ InitRest
  /\ output = NoOutput
  /\ pending = [r \in RequestIds |-> Idle]
  /\ parses = NoParses
InitPhp ==
  /\ content \in TextsOf(PhpPieces, MaxPieces)
  /\ InitExtractor
ParsePhp ==
  /\ output.op = "none"
  /\ output' = Returned("PhpParser.parse", PhpParserParse(content), FALSE, "php")
  /\ UNCHANGED <<registryVars, providerVars, envVars, last, recency, sinceNotify,
                 sinceArm, burst, spaced, content, requestVars>>
NextPhp == ParsePhp
SpecPhp == InitPhp /\ [][NextPhp]_vars

\* ------------------------------------------------------- JsTsParser.parseWithAst
\* The syntax tree of a whole-file segment, as the preorder list of its
\* constructs: each has a kind and a depth (1 = child of the SourceFile).
\* Nodes the visitor only walks through are left out or are "Other".
\*   ClassDeclaration     class with a name
\*   ClassExpression      class expression, or class declaration without a name
\*   MethodDeclaration    method whose name is an identifier
\*   NonIdentifierMethod  method with a private (#m), quoted or computed name
\*   PropertyDeclaration  class property with an arrow or function initializer
\*   FunctionDeclaration  function with a name
\*   VariableStatement    const A = () => {...}, a = () => {...}
\*   Other                block, object literal, constructor, accessor, ...
ClassKinds == {"ClassDeclaration", "ClassExpression"}
MemberKinds == {"MethodDeclaration", "NonIdentifierMethod", "PropertyDeclaration"}
StatementKinds ==
  {"ClassDeclaration", "ClassExpression", "FunctionDeclaration", "VariableStatement"}
NodeKinds == ClassKinds \cup MemberKinds \cup StatementKinds \cup {"Other"}
NodeNames == <<"A", "B", "C", "D", "E", "F">>
SecondNames == <<"a", "b", "c", "d", "e", "f">>

\* The parent of a node about to be written at depth d after the nodes of tree.
ParentKind(tree, d) ==
  IF d = 1 THEN "SourceFile"
  ELSE tree[CHOOSE j \in 1..Len(tree) :
              /\ tree[j].depth = d - 1
              /\ \A m \in (j + 1)..Len(tree) : tree[m].depth # d - 1].kind
\* Where the grammar lets a construct appear.
Allowed(kind, parentKind) ==
  IF parentKind \in ClassKinds THEN kind \in MemberKinds \cup {"Other"}
  ELSE \/ kind \in StatementKinds \cup {"Other"}
       \/ kind \in {"MethodDeclaration", "NonIdentifierMethod"} /\ parentKind = "Other"

LastDescendant(tree, i) ==
  CHOOSE j \in i..Len(tree) :
    /\ \A m \in (i + 1)..j : tree[m].depth > tree[i].depth
    /\ j = Len(tree) \/ tree[j + 1].depth <= tree[i].depth
\* node.getStart() and node.getEnd(): a construct opens, its children
\* follow, it closes.
GetStart(tree, i) == 2 * (i - 1) - (tree[i].depth - 1)
GetEnd(tree, i) == GetStart(tree, i) + 2 * (LastDescendant(tree, i) - i + 1) - 1
\* getLine(node.getStart()) for a whole-file segment: every construct
\* starts a line of its own.
GetLine(tree, i) == i - 1

Col(name, line, parent, type, absStart, absEnd) ==
  [name |-> name, line |-> line, parent |-> parent, type |-> type,
   absStart |-> absStart, absEnd |-> absEnd]

\* The collected.push calls of visit for node i, given the class-name stack.
Collect(tree, i, parentNameStack) ==
  LET k == tree[i].kind
      parentClass == IF parentNameStack = <<>> THEN "undefined"
                     ELSE parentNameStack[Len(parentNameStack)].name
      st == GetStart(tree, i)
      en == GetEnd(tree, i)
      ln == GetLine(tree, i)
  IN IF k = "FunctionDeclaration"
       THEN <<Col(NodeNames[i], ln, "undefined", "function", st, en)>>
     ELSE IF k = "VariableStatement"
       THEN <<Col(NodeNames[i], ln, "undefined", "function", st, en),
              Col(SecondNames[i], ln, "undefined", "function", st, en)>>
     ELSE IF k = "ClassDeclaration"
       THEN <<Col(NodeNames[i], ln, "undefined", "class", st, en)>>
     ELSE IF k \in {"MethodDeclaration", "PropertyDeclaration"}
       THEN <<Col(NodeNames[i], ln, parentClass, "function", st, en)>>
     ELSE <<>>

\* if (pushed) parentNameStack.pop(), when the visit of a class subtree
\* returns: the classes that do not contain the node at this depth are gone.
PopFinished(stack, depth) == SelectSeq(stack, LAMBDA e : e.depth < depth)

\* visit(sf, []): preorder over the nodes with the class-name stack.
RECURSIVE Visit(_, _, _)
Visit(tree, i, parentNameStack) ==
  IF i > Len(tree) THEN <<>>
  ELSE LET stack == PopFinished(parentNameStack, tree[i].depth)
           pushed == IF tree[i].kind = "ClassDeclaration"
                     THEN Append(stack, [depth |-> tree[i].depth, name |-> NodeNames[i]])
                     ELSE stack
       IN Collect(tree, i, stack) \o Visit(tree, i + 1, pushed)

\* (a, b) => a.absStart - b.absStart || b.absEnd - a.absEnd
ByStartThenWidest(a, b) ==
  IF a.absStart # b.absStart THEN a.absStart - b.absStart ELSE b.absEnd - a.absEnd
\* (a, b) => b.absStart - a.absStart
ByStartDescending(a, b) == b.absStart - a.absStart
Compare(cmp, a, b) ==
  IF cmp = "ByStartThenWidest" THEN ByStartThenWidest(a, b) ELSE ByStartDescending(a, b)

\* Array.prototype.sort: stable, by the comparator's sign.
RECURSIVE InsertSorted(_, _, _)
InsertSorted(sorted, x, cmp) ==
  IF sorted = <<>> THEN <<x>>
  ELSE IF Compare(cmp, x, sorted[Len(sorted)]) < 0
       THEN Append(InsertSorted(SubSeq(sorted, 1, Len(sorted) - 1), x, cmp),
                   sorted[Len(sorted)])
       ELSE Append(sorted, x)
RECURSIVE SortedFrom(_, _, _)
SortedFrom(done, rest, cmp) ==
  IF rest = <<>> THEN done
  ELSE SortedFrom(InsertSorted(done, Head(rest), cmp), Tail(rest), cmp)
ArraySort(items, cmp) == SortedFrom(<<>>, items, cmp)

\* collected.filter(c => c !== it && c.absStart <= it.absStart && c.absEnd >= it.absEnd)
Candidates(collected, n) ==
  LET idx == SelectSeq([j \in 1..Len(collected) |-> j],
                       LAMBDA j : /\ j # n
                                  /\ collected[j].absStart <= collected[n].absStart
                                  /\ collected[j].absEnd >= collected[n].absEnd)
  IN [x \in 1..Len(idx) |-> collected[idx[x]]]

ChooseParent_Outermost(candidates) == candidates[1].name

\* candidates.sort((a, b) => b.absStart - a.absStart); candidates[0].name
ChooseParent(candidates) == ArraySort(candidates, "ByStartDescending")[1].name

\* The enclosure pass over the sorted collected items.
ResultsMap(collected) ==
  [n \in 1..Len(collected) |->
     LET it == collected[n]
         candidates == Candidates(collected, n)
     IN Record(it.name, it.line,
               IF it.parent = "undefined" /\ candidates # <<>>
               THEN ChooseParent(candidates) ELSE it.parent,
               it.type)]

\* if (!dedup.find(d => d.name === r.name && d.line === r.line && d.parent === r.parent))
RECURSIVE Dedup(_, _)
Dedup(dedup, rest) ==
  IF rest = <<>> THEN dedup
  ELSE LET r == Head(rest)
       IN IF \E x \in 1..Len(dedup) : /\ dedup[x].name = r.name
                                       /\ dedup[x].line = r.line
                                       /\ dedup[x].parent = r.parent
          THEN Dedup(dedup, Tail(rest))
          ELSE Dedup(Append(dedup, r), Tail(rest))

Collected(tree) == ArraySort(Visit(tree, 1, <<>>), "ByStartThenWidest")
parseWithAst(tree) == Dedup(<<>>, ResultsMap(Collected(tree)))

\* --- SpecAst: a source is written construct by construct, then parsed.
InitAst ==
  /\ content = <<>>
  /\ InitExtractor
WriteNode(kind, depth) ==
  /\ output.op = "none"
  /\ Len(content) < MaxNodes
  /\ depth = 1 \/ (content # <<>> /\ depth <= content[Len(content)].depth + 1)
  /\ Allowed(kind, ParentKind(content, depth))
  /\ content' = Append(content, [kind |-> kind, depth |-> depth])
  /\ UNCHANGED <<registryVars, providerVars, envVars, last, recency, sinceNotify,
                 sinceArm, burst, spaced, output, requestVars>>
ParseAst ==
  /\ output.op = "none"
  /\ output' = Returned("parseWithAst", parseWithAst(content), FALSE, "ast")
  /\ UNCHANGED <<registryVars, providerVars, envVars, last, recency, sinceNotify,
                 sinceArm, burst, spaced, content, requestVars>>
NextAst ==
  \/ \E kind \in NodeKinds, depth \in 1..MaxNodes : WriteNode(kind, depth)
  \/ ParseAst
SpecAst == InitAst /\ [][NextAst]_vars

\* ------------------------------------------------------- JsTsParser.parse
\* A JS/TS text as lexemes: a one-line function declaration, line ends, a
\* complete <script ...> opening tag, the closing tag, and "<scripts", text
\* that holds "<script" without a word boundary after it.
Fn == "function f(){}"
CR == "CR"
OpenTag == "<script>"
CloseTag == "</script>"
JsPieces == {<<Fn>>, <<LF>>, <<CR>>, <<OpenTag>>, <<CloseTag>>, <<"<scripts">>}

\* content.replace(/\r\n|\r/g, '\n'); the byte-order mark is not modelled.
RECURSIVE Normalize(_)
Normalize(text) ==
  IF text = <<>> THEN <<>>
  ELSE IF Head(text) = CR
       THEN IF Len(text) > 1 /\ text[2] = LF
            THEN <<LF>> \o Normalize(Tail(Tail(text)))
            ELSE <<LF>> \o Normalize(Tail(text))
       ELSE <<Head(text)>> \o Normalize(Tail(text))

\* /<script\b/i.test(original)
HasScriptTag(text) == \E i \in 1..Len(text) : text[i] = OpenTag
\* /<script/i.test(original)
IsEmbedded(text) == \E i \in 1..Len(text) : text[i] \in {OpenTag, "<scripts"}

FirstAt(text, from, lexeme) ==
  IF \E i \in from..Len(text) : text[i] = lexeme
  THEN CHOOSE i \in from..Len(text) :
         text[i] = lexeme /\ \A j \in from..(i - 1) : text[j] # lexeme
  ELSE 1 - 1
\* The matches of /<script\b[^>]*>([\s\S]*?)<\/script>/gi, as segments.
RECURSIVE ScriptSegments(_, _)
ScriptSegments(text, from) ==
  LET open == FirstAt(text, from, OpenTag)
      close == IF open = 0 THEN 0 ELSE FirstAt(text, open + 1, CloseTag)
  IN IF open = 0 \/ close = 0 THEN <<>>
     ELSE <<[text |-> SubSeq(text, open + 1, close - 1),
             baseOffset |-> open,
             baseLine |-> SplitLength(text, open + 1)]>>
            \o ScriptSegments(text, close + 1)
\* The segments parseWithAst parses when neither the Vue nor the Svelte
\* compiler is installed.
Segments(original) ==
  IF HasScriptTag(original) /\ ScriptSegments(original, 1) # <<>>
  THEN ScriptSegments(original, 1)
  ELSE <<[text |-> original, baseOffset |-> 1 - 1, baseLine |-> 1 - 1]>>

\* const correction = isEmbedded ? 1 : 0
Correction(original) == IF IsEmbedded(original) THEN 1 ELSE 1 - 1

\* The function declarations visit collects in one segment.
RECURSIVE SegmentItems(_, _, _)
SegmentItems(original, seg, p) ==
  IF p > Len(seg.text) THEN <<>>
  ELSE (IF seg.text[p] = Fn
        THEN <<Col("f", seg.baseLine + (SplitLength(seg.text, p) - 1)
                          - Correction(original),
                   "undefined", "function", seg.baseOffset + p - 1, seg.baseOffset + p)>>
        ELSE <<>>) \o SegmentItems(original, seg, p + 1)
RECURSIVE AllSegmentItems(_, _)
AllSegmentItems(original, segs) ==
  IF segs = <<>> THEN <<>>
  ELSE SegmentItems(original, Head(segs), 1) \o AllSegmentItems(original, Tail(segs))
parseWithAstText(original) ==
  Dedup(<<>>, ResultsMap(ArraySort(AllSegmentItems(original, Segments(original)),
                                   "ByStartThenWidest")))

\* scriptMatches.length > 0 ? scriptMatches.join('\n') : normalized
RECURSIVE JoinSegments(_)
JoinSegments(segs) ==
  IF segs = <<>> THEN <<>>
  ELSE IF Len(segs) = 1 THEN segs[1].text
  ELSE segs[1].text \o <<LF>> \o JoinSegments(Tail(segs))
ParseSource(normalized) ==
  IF ScriptSegments(normalized, 1) # <<>> THEN JoinSegments(ScriptSegments(normalized, 1))
  ELSE normalized
\* addMatches(functionDeclRegex, 'function') through pushItem, which skips
\* an item whose name, line and type are already there.
RECURSIVE RegexItems(_, _, _)
RegexItems(src, start, items) ==
  IF start > Len(src) THEN items
  ELSE LET lineNumber == SplitLength(src, start)
       IN IF src[start] = Fn /\ \A x \in 1..Len(items) : items[x].line # lineNumber
          THEN RegexItems(src, start + 1,
                          Append(items, Record("f", lineNumber, "undefined", "undefined")))
          ELSE RegexItems(src, start + 1, items)
Called(value, threw) == [value |-> value, threw |-> threw]

parseWithRegex_NoCatch(source, fault) ==
  IF fault THEN Called(<<>>, TRUE)
  ELSE Called(RegexItems(ParseSource(Normalize(source)), 1, <<>>), FALSE)

\* parseWithRegex: its whole body is in a try whose catch returns [].
parseWithRegex(source, fault) ==
  IF fault THEN Called(<<>>, FALSE)
  ELSE Called(RegexItems(ParseSource(Normalize(source)), 1, <<>>), FALSE)

\* JsTsParser.parse.  c.ts: require('typescript') succeeded; c.astFault and
\* c.regexFault: the AST pass, the regex pass meets an exception.
JsTsParserParse(c) ==
  LET original == Normalize(c.text)
      regex == parseWithRegex(original, c.regexFault)
  IN IF c.ts
     THEN IF ~c.astFault
          THEN Returned("JsTsParser.parse", parseWithAstText(original), FALSE, "ast")
          ELSE IF regex.threw
               THEN Returned("JsTsParser.parse", <<>>, FALSE, "empty")
               ELSE Returned("JsTsParser.parse", regex.value, FALSE, "regex")
     ELSE Returned("JsTsParser.parse", regex.value, regex.threw, "regex")

\* --- SpecJs: JsTsParser.parse over texts and engine conditions.
InitJs ==
  /\ content \in [text : TextsOf(JsPieces, MaxPieces), ts : BOOLEAN,
                   astFault : BOOLEAN, regexFault : BOOLEAN]
  /\ InitExtractor
ParseJs ==
  /\ output.op = "none"
  /\ output' = JsTsParserParse(content)
  /\ UNCHANGED <<registryVars, providerVars, envVars, last, recency, sinceNotify,
                 sinceArm, burst, spaced, content, requestVars>>
NextJs == ParseJs
SpecJs == InitJs /\ [][NextJs]_vars

\* ------------------------------------------------------- parseWithAst segmentation
\* What a compiler does with the text, an outcome the text does not
\* determine: it is not installed, its parse throws, it reports no script
\* block, or it reports the script blocks of the text (at most two: script
\* and scriptSetup, instance and module).
CompilerOutcomes == {"absent", "throws", "none", "blocks"}

\* The segments the Vue or the Svelte step pushes.  A Vue block is the
\* content between the tags; a Svelte node spans the tags as well.
CompilerSegments(original, compiler, outcome) ==
  LET found == ScriptSegments(original, 1)
      blocks == SubSeq(found, 1, Min(Len(found), 2))
  IN IF outcome # "blocks" \/ ~HasScriptTag(original) THEN <<>>
     ELSE [i \in 1..Len(blocks) |->
            IF compiler = "vue"
            THEN [by |-> "vue", text |-> blocks[i].text,
                  baseOffset |-> blocks[i].baseOffset, baseLine |-> blocks[i].baseLine]
            ELSE [by |-> "svelte",
                  text |-> <<OpenTag>> \o blocks[i].text \o <<CloseTag>>,
                  baseOffset |-> blocks[i].baseOffset - 1,
                  baseLine |-> SplitLength(original, blocks[i].baseOffset)]]

\* The segments array of parseWithAst after its four steps.
SegmentsWith(original, vue, svelte) ==
  LET compiled == CompilerSegments(original, "vue", vue)
                    \o CompilerSegments(original, "svelte", svelte)
      tagged == [i \in 1..Len(ScriptSegments(original, 1)) |->
                   [by |-> "script", text |-> ScriptSegments(original, 1)[i].text,
                    baseOffset |-> ScriptSegments(original, 1)[i].baseOffset,
                    baseLine |-> ScriptSegments(original, 1)[i].baseLine]]
      extracted == IF compiled = <<>> /\ HasScriptTag(original) THEN tagged ELSE compiled
  IN IF extracted = <<>>
     THEN <<[by |-> "whole", text |-> original, baseOffset |-> 1 - 1, baseLine |-> 1 - 1]>>
     ELSE extracted

\* --- SpecSegments: the segmentation over texts and compiler outcomes.
InitSegments ==
  /\ content \in [text : {Normalize(t) : t \in TextsOf(JsPieces, MaxPieces)},
                   vue : CompilerOutcomes, svelte : CompilerOutcomes]
  /\ InitExtractor
Segment ==
  /\ output.op = "none"
  /\ output' = Returned("segments",
                        SegmentsWith(content.text, content.vue, content.svelte),
                        FALSE, "ast")
  /\ UNCHANGED <<registryVars, providerVars, envVars, last, recency, sinceNotify,
                 sinceArm, burst, spaced, content, requestVars>>
NextSegments == Segment
SpecSegments == InitSegments /\ [][NextSegments]_vars

\* ------------------------------------------------------- parseWithRegex stripper
\* The parse source as its characters; x is any character the five
\* patterns give no meaning to.
MaskPieces ==
  {<<"/", "*">>, <<"*", "/">>, <<"/", "/">>, <<LF>>, <<"`">>, <<"'">>, <<"\"">>,
   <<"\\">>, <<"x">>}

\* (?:\\[\s\S]|[^\\`])*` and (?:\\.|[^'\\])*' from index j on: the index of
\* the closing quote, 0 when the literal does not close.  An escape takes two
\* characters; outside a template the escaped one cannot be a line feed.
RECURSIVE TokenScan(_, _, _, _)
TokenScan(text, j, quote, dotAll) ==
  IF j > Len(text) THEN 1 - 1
  ELSE IF text[j] = quote THEN j
  ELSE IF text[j] = "\\"
    THEN IF j + 1 > Len(text) \/ (~dotAll /\ text[j + 1] = LF)
         THEN 1 - 1
         ELSE TokenScan(text, j + 2, quote, dotAll)
  ELSE TokenScan(text, j + 1, quote, dotAll)

\* The last index of the match of a pattern that starts at index i, 0 when
\* none starts there.
MatchEnd(text, i, pattern) ==
  LET n == Len(text)
      pair(a, b) == i + 1 <= n /\ text[i] = a /\ text[i + 1] = b
  IN IF pattern = "block"
       THEN LET closes == {j \in (i + 2)..(n - 1) : text[j] = "*" /\ text[j + 1] = "/"}
            IN IF pair("/", "*") /\ closes # {}
               THEN (CHOOSE j \in closes : \A c \in closes : j <= c) + 1
               ELSE 1 - 1
     ELSE IF pattern = "line"
       THEN LET feeds == {j \in i..n : text[j] = LF}
            IN IF ~pair("/", "/") THEN 1 - 1
               ELSE IF feeds = {} THEN n
               ELSE (CHOOSE j \in feeds : \A c \in feeds : j <= c) - 1
     ELSE IF pattern = "template"
       THEN IF text[i] = "`" THEN TokenScan(text, i + 1, "`", TRUE) ELSE 1 - 1
     ELSE IF pattern = "single"
       THEN IF text[i] = "'" THEN TokenScan(text, i + 1, "'", FALSE) ELSE 1 - 1
     ELSE IF text[i] = "\"" THEN TokenScan(text, i + 1, "\"", FALSE) ELSE 1 - 1

\* s.replace(pattern, (m) => ' '.repeat(m.length)) from index i on
RECURSIVE MaskPass(_, _, _)
MaskPass(text, i, pattern) ==
  IF i > Len(text) THEN text
  ELSE LET e == MatchEnd(text, i, pattern)
       IN IF e = 0
          THEN MaskPass(text, i + 1, pattern)
          ELSE MaskPass([k \in 1..Len(text) |-> IF k \in i..e THEN " " ELSE text[k]],
                        e + 1, pattern)

stripper(s) ==
  MaskPass(MaskPass(MaskPass(MaskPass(MaskPass(s, 1, "block"), 1, "line"),
                             1, "template"), 1, "single"), 1, "double")

\* --- SpecMask: the stripper over parse sources.
InitMask ==
  /\ content \in TextsOf(MaskPieces, MaxPieces)
  /\ InitExtractor
Strip ==
  /\ output.op = "none"
  /\ output' = Returned("stripper", stripper(content), FALSE, "regex")
  /\ UNCHANGED <<registryVars, providerVars, envVars, last, recency, sinceNotify,
                 sinceArm, burst, spaced, content, requestVars>>
NextMask == Strip
SpecMask == InitMask /\ [][NextMask]_vars

\* ------------------------------------------------------- PythonParser
\* A Python text as its lines: the length of the leading blanks and whether
\* functionRegex ("def"), classRegex ("class") or neither matches: a
\* statement ("other") or a line of blanks only ("blank", empty at indent 0).  The header on line i is
\* named PyNames[i + 1].
PyIndents == 0..2
PyKinds == {"def", "class", "other", "blank"}
PyLines == [indent : PyIndents, kind : PyKinds]
PyNames == <<"n0", "n1", "n2", "n3", "n4", "n5">>
\* config.get('pythonMaxDepth', 1)
PyMaxDepths == {1 - 1, 1}

RECURSIVE PopDedented_Strict(_, _)
PopDedented_Strict(stack, indent) ==
  IF stack # <<>> /\ indent < stack[Len(stack)].indent
  THEN PopDedented_Strict(SubSeq(stack, 1, Len(stack) - 1), indent)
  ELSE stack

\* while (stack.length > 0 && indent <= stack[stack.length - 1].indent) stack.pop()
RECURSIVE PopDedented(_, _)
PopDedented(stack, indent) ==
  IF stack # <<>> /\ indent <= stack[Len(stack)].indent
  THEN PopDedented(SubSeq(stack, 1, Len(stack) - 1), indent)
  ELSE stack

\* The for loop of PythonParser.parse from line i (0-based) on.
RECURSIVE PyLoop(_, _, _, _, _)
PyLoop(lines, i, stack0, functions, maxDepth) ==
  IF i >= Len(lines) THEN functions
  ELSE LET line == lines[i + 1]
           stack == PopDedented(stack0, line.indent)
           currentDepth == IF stack # <<>> THEN stack[Len(stack)].depth + 1 ELSE 1 - 1
           entry == [indent |-> line.indent, depth |-> currentDepth, name |-> PyNames[i + 1]]
           parent == IF stack # <<>> THEN stack[Len(stack)].name ELSE "undefined"
       IN IF line.kind = "class"
            THEN PyLoop(lines, i + 1, Append(stack, entry), functions, maxDepth)
          ELSE IF line.kind = "def"
            THEN PyLoop(lines, i + 1,
                        Append(stack, entry),
                        IF currentDepth <= maxDepth
                        THEN Append(functions,
                                    Record(PyNames[i + 1], i, parent, "undefined"))
                        ELSE functions,
                        maxDepth)
          ELSE PyLoop(lines, i + 1, stack, functions, maxDepth)
PythonParserParse(lines, maxDepth) == PyLoop(lines, 1 - 1, <<>>, <<>>, maxDepth)

\* --- SpecPython: PythonParser.parse over texts and pythonMaxDepth values.
InitPython ==
  /\ content \in [lines : UNION {[1..n -> PyLines] : n \in 0..MaxLines},
                   maxDepth : PyMaxDepths]
  /\ InitExtractor
ParsePython ==
  /\ output.op = "none"
  /\ output' = Returned("PythonParser.parse",
                        PythonParserParse(content.lines, content.maxDepth), FALSE, "python")
  /\ UNCHANGED <<registryVars, providerVars, envVars, last, recency, sinceNotify,
                 sinceArm, burst, spaced, content, requestVars>>
NextPython == ParsePython
SpecPython == InitPython /\ [][NextPython]_vars

\* ------------------------------------------------------- tree requests
\* filterRegex values: none, one new RegExp rejects, and four it accepts.
FilterPatterns == {"", "(", "^get", "Item$", "set", "^$"}
\* new RegExp(filterRegex) returns rather than throws a SyntaxError
RegExpValid(p) == p # "("
\* regex.test(f.name), the name given as its words
RegExpTest(p, name) ==
  CASE p = "^get" -> name[1] = "get"
    [] p = "Item$" -> name[Len(name)] = "Item"
    [] p = "set" -> \E i \in 1..Len(name) : name[i] = "set"
    [] p = "^$" -> name = <<>>
    [] OTHER -> TRUE

ApplyFilter_InvalidDropsAll(functions, filterRegex) ==
  IF filterRegex # ""
  THEN IF RegExpValid(filterRegex)
       THEN SelectSeq(functions, LAMBDA f : RegExpTest(filterRegex, f.name))
       ELSE <<>>
  ELSE functions

\* if (filterRegex) { try { filtered = filtered.filter(...) } catch { log } }
ApplyFilter(functions, filterRegex) ==
  IF filterRegex # ""
  THEN IF RegExpValid(filterRegex)
       THEN SelectSeq(functions, LAMBDA f : RegExpTest(filterRegex, f.name))
       ELSE functions
  ELSE functions

\* file://<path>@<name>:<line> for every record
FunctionUris(k, filtered) ==
  [i \in 1..Len(filtered) |->
     [path |-> k, name |-> filtered[i].name, line |-> filtered[i].line]]

\* The extractor runs at a revision of each key since the key last left the cache.
CountParse(k) ==
  parses' = [e \in Keys |->
    IF e \in last'.evicted THEN NoParses[e]
    ELSE IF e = k /\ last'.parsed
      THEN [version |-> docVersion[k],
            count |-> IF parses[k].version = docVersion[k]
                      THEN parses[k].count + 1 ELSE 1]
    ELSE parses[e]]

\* getChildren(element) or getTreeItem(element) for the file of document k,
\* up to its await of openTextDocument; a disabled view returns [] at once.
Call(r, kind, k) ==
  /\ pending[r].stage = "idle"
  /\ IF kind = "getChildren" /\ ~content.enabled
     THEN /\ output' = Returned("getChildren", <<>>, FALSE, "disabled")
          /\ UNCHANGED pending
     ELSE /\ pending' = [pending EXCEPT ![r] =
               [kind |-> kind, key |-> k, stage |-> "openTextDocument",
                functions |-> <<>>, version |-> 1 - 1]]
          /\ UNCHANGED output
  /\ UNCHANGED <<registryVars, providerVars, envVars, last, recency, sinceNotify,
                 sinceArm, burst, spaced, content, parses>>

\* openTextDocument resolves: the request runs parseDocument, which has no
\* await in it, and is suspended again at the await of its result.
Opened(r) ==
  /\ pending[r].stage = "openTextDocument"
  /\ parseDocument(pending[r].key)
  /\ pending' = [pending EXCEPT ![r] =
       [@ EXCEPT !.stage = "parseDocument", !.functions = last'.result,
                 !.version = docVersion[pending[r].key]]]
  /\ CountParse(pending[r].key)
  /\ UNCHANGED <<registryVars, envVars, extractVars>>

\* The rest of the request: getChildren filters and maps to URIs, getTreeItem
\* picks the collapsible state.
Return(r) ==
  /\ pending[r].stage = "parseDocument"
  /\ output' =
       IF pending[r].kind = "getChildren"
       THEN Returned("getChildren",
                     FunctionUris(pending[r].key,
                                  ApplyFilter(pending[r].functions, content.filterRegex)),
                     FALSE, "file")
       ELSE Returned("getTreeItem",
                     <<IF Len(pending[r].functions) > 0 THEN "Collapsed" ELSE "None">>,
                     FALSE, "file")
  /\ pending' = [pending EXCEPT ![r] = Idle]
  /\ UNCHANGED <<registryVars, providerVars, envVars, last, recency, sinceNotify,
                 sinceArm, burst, spaced, content, parses>>

\* A request for the next background document, first await to last.
OpenBackgroundCounted ==
  /\ bgOpened < NumBackground
  /\ parseDocument(NextBackground)
  /\ bgOpened' = bgOpened + 1
  /\ CountParse(NextBackground)
  /\ UNCHANGED <<registryVars, docVersion, lastCfg, extractVars, pending>>

CloseCounted(k) ==
  /\ handleDocumentClosed(k)
  /\ parses' = [parses EXCEPT ![k] = NoParses[k]]
  /\ UNCHANGED <<registryVars, envVars, extractVars, pending>>

\* A request for document k whose extractor call, if any, ends as raw says.
RequestRaw(k, raw) ==
  /\ parseDocumentGiven(k, raw)
  /\ UNCHANGED <<registryVars, envVars, extractVars, requestVars>>

\* --- SpecFailures: the Rust document among background documents, a parser
\* registered for it at run time, and requests whose extractor call fails
\* or succeeds.
RawOutcomes == {"list", "nonlist", "throws"}
NextFailures ==
  \/ \E k \in LruKeys : DocumentChanged(k)
  \/ \E k \in LruKeys, raw \in RawOutcomes : RequestRaw(k, raw)
  \/ Register("rust")
  \/ OpenBackground
  \/ \E k \in LruKeys : Close(k)

SpecFailures == InitRegistry /\ [][NextFailures]_vars

\* onDidChangeConfiguration after the user set enabled and filterRegex:
\* reloadSettings takes a new configuration snapshot, the other settings as
\* they were.
ChangeView(enabled, filterRegex) ==
  /\ content # [enabled |-> enabled, filterRegex |-> filterRegex]
  /\ content' = [enabled |-> enabled, filterRegex |-> filterRegex]
  /\ reloadSettings(lastCfg[1], lastCfg[2], FALSE)
  /\ UNCHANGED <<registryVars, envVars, output, requestVars>>

\* --- SpecFilter: one request at a time for the TypeScript and the Rust
\* document, under every enabled and filterRegex setting and changes of them.
InitFilter ==
  /\ Constructed(Missing, Missing)
  /\ lastCfg = <<Missing, Missing>>
  /\ InitRest
  /\ content \in [enabled : BOOLEAN, filterRegex : FilterPatterns]
  /\ output = NoOutput
  /\ pending = [r \in RequestIds |-> Idle]
  /\ parses = NoParses

NextFilter ==
  \/ \E k \in SpecEdited : DocumentChanged(k)
  \/ \E kind \in {"getChildren", "getTreeItem"}, k \in EditedKeys : Call(1, kind, k)
  \/ Opened(1)
  \/ Return(1)
  \/ \E enabled \in BOOLEAN, filterRegex \in FilterPatterns :
       ChangeView(enabled, filterRegex)

SpecFilter == InitFilter /\ [][NextFilter]_vars

\* --- SpecRequests: two interleaved requests for the TypeScript document,
\* edits, closes, and background documents enough to evict it.
InitRequests ==
  /\ Constructed(Missing, Num(5))
  /\ lastCfg = <<Missing, Missing>>
  /\ InitRest
  /\ content = [enabled |-> TRUE, filterRegex |-> ""]
  /\ output = NoOutput
  /\ pending = [r \in RequestIds |-> Idle]
  /\ parses = NoParses

NextRequests ==
  \/ \E k \in SpecEdited : DocumentChanged(k)
  \/ \E r \in RequestIds, kind \in {"getChildren", "getTreeItem"}, k \in SpecEdited :
       Call(r, kind, k)
  \/ \E r \in RequestIds : Opened(r)
  \/ \E r \in RequestIds : Return(r)
  \/ OpenBackgroundCounted
  \/ \E k \in SpecEdited : CloseCounted(k)

SpecRequests == InitRequests /\ [][NextRequests]_vars

\* ------------------------------------------------------- claims
SupportedByDefault ==
  {"php", "python", "javascript", "typescript", "javascriptreact", "typescriptreact",
   "svelte", "vue"}
Entry(m, k) == MapGet(m, k)

\* C1: a parseDocument whose key is cached at the document's revision returns
\* exactly the stored list and runs no extractor; at any other revision it
\* extracts again and overwrites the entry with the document's revision and
\* the list it returns; no other operation alters a stored entry.
C1_CacheCorrectness ==
  [][\A k \in EditedKeys :
       /\ (last'.op = "parseDocument" /\ last'.key = k /\ Request(k)) =>
            IF MapHas(parseCache, k) /\ Entry(parseCache, k).version = docVersion[k]
            THEN /\ last'.result = Entry(parseCache, k).functions
                 /\ ~last'.parsed
                 /\ MapHas(parseCache', k)
                 /\ Entry(parseCache', k) = Entry(parseCache, k)
            ELSE /\ last'.parsed = (LanguageOf(k) \in SupportedByDefault)
                 /\ MapHas(parseCache', k)
                 /\ Entry(parseCache', k).version = docVersion[k]
                 /\ Entry(parseCache', k).functions = last'.result
       /\ (MapHas(parseCache, k) /\ MapHas(parseCache', k)
            /\ ~(last'.op = "parseDocument" /\ last'.key = k /\ Request(k))) =>
            Entry(parseCache', k) = Entry(parseCache, k)]_vars

\* A hit at revision 2 or later: the entry was overwritten after an edit and
\* is now returned from the cache.
C1_Witness ==
  /\ last.op = "parseDocument"
  /\ last.key = 1
  /\ ~last.parsed
  /\ docVersion[1] > 1
  /\ last.result = ParserParse(JsTsParser, 1, docVersion[1])

\* C2: an insertion into a full cache leaves exactly capacity entries, and
\* the keys a parseDocument evicts are the ones least recently touched by a
\* cache hit or a cache write.
C2_LruEviction ==
  [][\A k \in Keys :
       (last'.op = "parseDocument" /\ last'.key = k /\ parseDocument(k)) =>
         LET order == Touched(recency, k)
             n == Cardinality(last'.evicted)
         IN /\ (~MapHas(parseCache, k) /\ Len(parseCache) = maxCacheEntries)
                 => Len(parseCache') = maxCacheEntries
            /\ last'.evicted = {order[i] : i \in 1..n}]_vars

\* C3: the cache never holds more than maxCacheEntries entries.
C3_CapacityInvariant == Len(parseCache) <= maxCacheEntries

\* A reloadSettings that lowered the capacity and evicted down to it.
C3_Witness ==
  /\ last.op = "reloadSettings"
  /\ last.evicted # {}
  /\ Len(parseCache) = maxCacheEntries

\* C4 as stated: after change notifications of a key that each came less
\* than debounceMs after the one before, the debounce timer fires debounceMs
\* after the last of them, and leaves no other timer for the key.
C4_FiresAfterLastNotification ==
  (last.op = "timerCallback" /\ last.spaced) =>
    /\ last.sinceNotify = last.delay
    /\ TimersOf(hostTimers, last.key) = {}

\* C4 amended: a debounce timer fires debounceMs after the last change
\* notification of its key that took the timer path, issues one refresh and
\* leaves no other timer for the key.
C4_FiresAfterLastArming ==
  last.op = "timerCallback" =>
    /\ last.sinceArm = last.delay
    /\ last.refreshes = 1
    /\ TimersOf(hostTimers, last.key) = {}
    /\ debounceTimers[last.key] = 0

\* A timer fired after two or more notifications armed and re-armed it.
C4_Witness ==
  /\ last.op = "timerCallback"
  /\ last.spaced
  /\ last.burst >= 2
  /\ last.sinceArm = last.delay

\* C5: at most one live timer per key, and debounceTimers holds an entry for
\* a key exactly when a live timer exists, and the entry is that timer.
C5_TimerMapInvariant ==
  \A k \in Keys :
    /\ Cardinality(TimersOf(hostTimers, k)) <= 1
    /\ (debounceTimers[k] # 0) <=> (TimersOf(hostTimers, k) # {})
    /\ \A t \in TimersOf(hostTimers, k) : t.id = debounceTimers[k]

\* A notification cancelled the pending timer of its key and armed a new
\* one while the other key's timer stayed live.
C5_Witness ==
  /\ last.op = "scheduleRefreshForDocument"
  /\ last.cleared = 1
  /\ debounceTimers[last.key] # 0
  /\ \E j \in Keys : j # last.key /\ debounceTimers[j] # 0

\* C6: handleDocumentClosed(k) removes the cache entry and the pending timer
\* of k, leaves the entries (and their order) and the timers of every other
\* key unchanged, and every timer that fires is the one registered for its
\* key, so no timer cancelled by a close fires.
C6_DocumentClose ==
  [][/\ \A k \in EditedKeys :
          (last'.op = "handleDocumentClosed" /\ last'.key = k /\ Close(k)) =>
            /\ ~MapHas(parseCache', k)
            /\ debounceTimers'[k] = 0
            /\ TimersOf(hostTimers', k) = {}
            /\ parseCache' = SelectSeq(parseCache, LAMBDA e : e.key # k)
            /\ \A j \in Keys \ {k} :
                 /\ debounceTimers'[j] = debounceTimers[j]
                 /\ TimersOf(hostTimers', j) = TimersOf(hostTimers, j)
     /\ \A t \in hostTimers : Fire(t) => debounceTimers[t.key] = t.id]_vars

\* A close that cancelled a pending timer while the other key still has its
\* cache entry and its pending timer.
C6_Witness ==
  /\ last.op = "handleDocumentClosed"
  /\ last.cleared = 1
  /\ \E j \in Keys : j # last.key /\ debounceTimers[j] # 0 /\ MapHas(parseCache, j)

\* C7: a change notification for a key cached at the document's revision
\* issues one refresh, leaves the host timers and the timer map unchanged,
\* keeps the entry, and moves the key to the most recently used position
\* without reordering the other entries.
C7_UnchangedRevisionFastPath ==
  [][\A k \in EditedKeys :
       (/\ last'.op = "scheduleRefreshForDocument"
        /\ last'.key = k
        /\ Notify(k)
        /\ MapHas(parseCache, k)
        /\ Entry(parseCache, k).version = docVersion[k]) =>
         /\ last'.refreshes = 1
         /\ hostTimers' = hostTimers
         /\ debounceTimers' = debounceTimers
         /\ MapHas(parseCache', k)
         /\ Entry(parseCache', k) = Entry(parseCache, k)
         /\ parseCache'[Len(parseCache')].key = k
         /\ MapDelete(parseCache', k) = MapDelete(parseCache, k)]_vars

\* The fast path ran for a key that was not the most recent one while a
\* timer for it was pending.
C7_Witness ==
  /\ last.op = "scheduleRefreshForDocument"
  /\ last.refreshes = 1
  /\ TimersOf(hostTimers, last.key) # {}
  /\ Len(parseCache) = 2
  /\ parseCache[2].key = last.key

\* C8: after any reloadSettings debounceMs is in [25, 5000] and
\* maxCacheEntries in [10, 20000]; a non-finite configured value keeps the
\* previous value; with nothing (or nothing finite) configured at
\* construction the values are 250 and 500.
NonFinite(cfg) == cfg.kind \in {"string", "posinf", "neginf"}
C8_SettingsClamp ==
  /\ [](/\ debounceMs \in 25..5000
        /\ maxCacheEntries \in 10..20000
        /\ (last.op = "none" /\ (lastCfg[1] = Missing \/ NonFinite(lastCfg[1])))
             => debounceMs = 250
        /\ (last.op = "none" /\ (lastCfg[2] = Missing \/ NonFinite(lastCfg[2])))
             => maxCacheEntries = 500)
  /\ [][/\ NonFinite(lastCfg'[1]) => debounceMs' = debounceMs
        /\ NonFinite(lastCfg'[2]) => maxCacheEntries' = maxCacheEntries]_vars

\* A reload that read a non-finite debounceMs (kept at 600) and a
\* maxCacheEntries above the range (clamped to 20000).
C8_Witness ==
  /\ last.op = "reloadSettings"
  /\ lastCfg = <<PosInfinity, Num(20001)>>
  /\ debounceMs = 600
  /\ maxCacheEntries = 20000

\* C9: getParser returns none for every id that is neither registered nor
\* an alias, and parseDocument for such a document returns the empty list,
\* runs no extractor and leaves an empty entry under the document's revision.
KnownAliases ==
  {"javascript", "typescript", "javascriptreact", "typescriptreact", "svelte", "vue"}
Unsupported(ps, l) ==
  l \notin ({ps[i].languageId : i \in 1..Len(ps)} \cup KnownAliases)
C9_UnsupportedLanguage ==
  [][/\ \A l \in ProbeIds :
          Unsupported(parsers, l) => getParser(parsers, l) = NoParser
     /\ \A k \in Keys :
          (/\ last'.op = "parseDocument"
           /\ last'.key = k
           /\ Unsupported(parsers, LanguageOf(k))
           /\ parseDocument(k)) =>
            /\ last'.result = <<>>
            /\ ~last'.parsed
            /\ MapHas(parseCache', k)
            /\ Entry(parseCache', k).version = docVersion[k]
            /\ Entry(parseCache', k).functions = <<>>]_vars

\* The Rust document was requested after an edit.
C9_Witness ==
  /\ last.op = "parseDocument"
  /\ LanguageOf(last.key) = "rust"
  /\ docVersion[last.key] > 1
  /\ MapHas(parseCache, last.key)
  /\ Entry(parseCache, last.key).version = docVersion[last.key]

\* C10: getParser returns the JS/TS extractor constructed with the registry
\* for javascript, typescript, javascriptreact, typescriptreact, svelte and
\* vue, whatever has been registered since.
C10_AliasRouting ==
  /\ \A l \in KnownAliases : getParser(parsers, l) = JsTsParser
  /\ lastLookup.languageId \in KnownAliases => lastLookup.result = JsTsParser

\* A lookup of vue made after a second parser with id javascript was registered.
C10_Witness ==
  /\ lastLookup.languageId = "vue"
  /\ lastLookup.registered > Len(InitialParsers)
  /\ parsers[Len(InitialParsers) + 1].languageId = "javascript"
  /\ lastLookup.result.inst = 2

\* C11: a lookup of a language id that some registered parser carries
\* returns the first parser registered with that id, whatever the alias
\* table says about the id.
C11_DirectIdFirst ==
  (/\ lastLookup.languageId # "undefined"
   /\ lastLookup.registered = Len(parsers)
   /\ Find(parsers, lastLookup.languageId) # NoParser) =>
    lastLookup.result = Find(parsers, lastLookup.languageId)

\* C12: no two records of one extraction result have the same name, line,
\* parent and kind.
NoDuplicates(value) ==
  \A i, j \in 1..Len(value) : i # j => value[i] # value[j]
C12_Deduplication ==
  output.op = "PhpParser.parse" => NoDuplicates(output.value)

\* C15: the PHP result has one record per place where `function`, blanks,
\* an identifier, optional blanks and "(" occur in the text, in text order,
\* each with the number of newlines before that place as its line and with
\* no parent and no kind.
PhpPatternAt(text, i) ==
  IF text[i] # "function" THEN {}
  ELSE UNION {UNION {{<<j, e, p>> : p \in
                       {x \in e..Len(text) :
                          /\ \A y \in e..(x - 1) : IsSpace(text[y])
                          /\ text[x] = "("}} :
                     e \in {x \in (j + 1)..Len(text) :
                              \A y \in j..(x - 1) : IsIdChar(text[y])}} :
              j \in {x \in (i + 2)..Len(text) :
                       /\ \A y \in (i + 1)..(x - 1) : IsSpace(text[y])
                       /\ IsIdStart(text[x])}}
PhpMatches(text) == {i \in 1..Len(text) : PhpPatternAt(text, i) # {}}
NewlinesBefore(text, i) == Cardinality({x \in 1..(i - 1) : text[x] = LF})
C15_PhpExtractor ==
  output.op = "PhpParser.parse" =>
    LET M == PhpMatches(content)
    IN /\ Len(output.value) = Cardinality(M)
       /\ \A i \in M :
            LET n == Cardinality({x \in M : x <= i})
                r == output.value[n]
            IN /\ r.line = NewlinesBefore(content, i)
               /\ \E s \in PhpPatternAt(content, i) : r.name = SubSeq(content, s[1], s[2] - 1)
               /\ r.parent = "undefined" /\ r.type = "undefined"

\* "function a(", a newline, "function b(" gave a on line 0 and b on line 1.
C15_Witness ==
  /\ content = <<"function", " ", "a", "(", LF, "function", " ", "b", "(">>
  /\ output.value = <<Record(<<"a">>, 0, "undefined", "undefined"),
                      Record(<<"b">>, 1, "undefined", "undefined")>>

\* C13: every collected item without an explicit parent that some other
\* collected span encloses gets as parent an enclosing item of the smallest
\* span: no other enclosing item is narrower than the chosen one.
Range(seq) == {seq[i] : i \in 1..Len(seq)}
Enclosing(items, it) ==
  {c \in Range(items) :
     c # it /\ c.absStart <= it.absStart /\ c.absEnd >= it.absEnd}
Width(c) == c.absEnd - c.absStart
C13_EnclosureCorrectness ==
  output.op = "parseWithAst" =>
    LET items == Collected(content)
    IN \A it \in Range(items) :
         (it.parent = "undefined" /\ Enclosing(items, it) # {}) =>
           \E r \in Range(output.value) :
             /\ r.name = it.name
             /\ \E c \in Enclosing(items, it) :
                  /\ r.parent = c.name
                  /\ \A d \in Enclosing(items, it) : Width(c) <= Width(d)

\* A function inside a two-declarator statement inside a function: three
\* enclosing items, two of them with the same span, and the parent is one
\* of the two.
C13_Witness ==
  /\ output.op = "parseWithAst"
  /\ content = <<[kind |-> "FunctionDeclaration", depth |-> 1],
                 [kind |-> "VariableStatement", depth |-> 2],
                 [kind |-> "FunctionDeclaration", depth |-> 3]>>
  /\ Record("C", 2, "B", "function") \in Range(output.value)
  /\ Record("B", 1, "b", "function") \in Range(output.value)

\* C17: every method and every function-valued class property has a record
\* of kind function, and when named class declarations enclose it the
\* record's parent is the innermost of them.
ClassAncestors(tree, i) ==
  {j \in 1..(i - 1) :
     /\ tree[j].kind = "ClassDeclaration"
     /\ \A m \in (j + 1)..i : tree[m].depth > tree[j].depth}
Innermost(S) == CHOOSE j \in S : \A x \in S : x <= j
C17_ClassMembers ==
  output.op = "parseWithAst" =>
    \A i \in 1..Len(content) :
      content[i].kind \in MemberKinds =>
        \E r \in Range(output.value) :
          /\ r.name = NodeNames[i]
          /\ r.type = "function"
          /\ ClassAncestors(content, i) # {} =>
                r.parent = NodeNames[Innermost(ClassAncestors(content, i))]

\* C14: JsTsParser.parse returns a list and never throws: the AST result
\* when the engine is there and the AST pass succeeds, else the regex
\* result, and the empty list when the regex pass meets an exception.
C14_GracefulDegradation ==
  output.op = "JsTsParser.parse" =>
    /\ ~output.threw
    /\ (content.ts /\ ~content.astFault) =>
         output.value = parseWithAstText(Normalize(content.text))
    /\ ((~content.ts \/ content.astFault) /\ ~content.regexFault) =>
         output.value = RegexItems(ParseSource(Normalize(content.text)), 1, <<>>)
    /\ ((~content.ts \/ content.astFault) /\ content.regexFault) =>
         output.value = <<>>

\* Without the engine, the regex pass met an exception on a text with a
\* declaration and the call returned the empty list.
C14_Witness ==
  /\ output.op = "JsTsParser.parse"
  /\ ~content.ts /\ content.regexFault
  /\ \E i \in 1..Len(content.text) : content.text[i] = Fn
  /\ output.value = <<>> /\ ~output.threw

\* C18: every record has a line >= 0 that is the 0-based line, in the
\* document, of a declaration of that name.
LineBreaksBefore(text, i) ==
  Cardinality({x \in 1..(i - 1) :
     text[x] = LF \/ (text[x] = CR /\ ~(x < Len(text) /\ text[x + 1] = LF))})
C18_LineCoordinate ==
  output.op = "JsTsParser.parse" =>
    \A r \in Range(output.value) :
      /\ r.line >= 0
      /\ \E i \in 1..Len(content.text) :
           content.text[i] = Fn /\ r.line = LineBreaksBefore(content.text, i)

\* C16: the headers still open at a line are the earlier class and def
\* lines that every line since, this one included, is indented deeper
\* than; a def is emitted exactly when the number of its open headers is at
\* most pythonMaxDepth, with the nearest open header (class or def, emitted
\* or not) as parent, its 0-based line, in source order; no class is emitted.
OpenHeaders(lines, i) ==
  {j \in 1..(i - 1) :
     /\ lines[j].kind \in {"def", "class"}
     /\ \A m \in (j + 1)..i : lines[m].indent > lines[j].indent}
EmittedDefs(lines, maxDepth) ==
  {i \in 1..Len(lines) :
     lines[i].kind = "def" /\ Cardinality(OpenHeaders(lines, i)) <= maxDepth}
C16_PythonExtractor ==
  output.op = "PythonParser.parse" =>
    LET lines == content.lines
        E == EmittedDefs(lines, content.maxDepth)
    IN /\ Len(output.value) = Cardinality(E)
       /\ \A i \in E :
            LET r == output.value[Cardinality({x \in E : x <= i})]
                H == OpenHeaders(lines, i)
            IN /\ r.name = PyNames[i]
               /\ r.line = i - 1
               /\ r.parent = IF H = {} THEN "undefined" ELSE PyNames[Innermost(H)]

\* With pythonMaxDepth 1: a class, a method in it and a def nested in the
\* method, then a method after it: the nested def is not emitted, both
\* methods are, with the class as parent.
C16_Witness ==
  /\ output.op = "PythonParser.parse"
  /\ content.maxDepth = 1
  /\ content.lines = <<[indent |-> 0, kind |-> "class"], [indent |-> 1, kind |-> "def"],
                       [indent |-> 2, kind |-> "def"], [indent |-> 1, kind |-> "def"]>>
  /\ output.value = <<Record("n1", 1, "n0", "undefined"),
                      Record("n3", 3, "n0", "undefined")>>

\* C19: a getChildren call that reaches the filter step returns, without
\* raising, the URIs of exactly the records whose name filterRegex matches,
\* in their order; with filterRegex empty or not a valid regular expression
\* it returns the URIs of all records.
C19_NameFilter ==
  [][\A r \in RequestIds :
       (pending[r].stage = "parseDocument" /\ pending[r].kind = "getChildren"
          /\ Return(r)) =>
         LET fs == pending[r].functions
             p == content.filterRegex
             kept == IF p = "" \/ ~RegExpValid(p)
                     THEN 1..Len(fs)
                     ELSE {i \in 1..Len(fs) : RegExpTest(p, fs[i].name)}
         IN /\ output'.op = "getChildren"
            /\ ~output'.threw
            /\ Len(output'.value) = Cardinality(kept)
            /\ \A i \in kept :
                 output'.value[Cardinality({j \in kept : j <= i})] =
                   [path |-> pending[r].key, name |-> fs[i].name, line |-> fs[i].line]]_vars

\* getChildren under filterRegex "(" has returned all three records of the
\* edited TypeScript document.
C19_Witness ==
  /\ output.op = "getChildren"
  /\ output.path = "file"
  /\ content.filterRegex = "("
  /\ Len(output.value) = Len(DocNames)
  /\ output.value[2].line > 2

\* C20: under interleaved getChildren and getTreeItem requests, edits, closes
\* and evictions, every cache entry and every list a request got from
\* parseDocument is the whole extraction result of the revision it is paired
\* with, and the extractor runs at most once per key and revision while the
\* key stays in the cache.
C20_AtomicGetOrPopulate ==
  /\ \A k \in KeySet(parseCache) :
       /\ MapGet(parseCache, k).version <= docVersion[k]
       /\ MapGet(parseCache, k).functions =
            ParserParse(getParser(parsers, LanguageOf(k)), k, MapGet(parseCache, k).version)
  /\ \A r \in RequestIds :
       pending[r].stage = "parseDocument" =>
         pending[r].functions =
           ParserParse(getParser(parsers, LanguageOf(pending[r].key)),
                       pending[r].key, pending[r].version)
  /\ \A k \in Keys : parses[k].count <= 1

\* Two requests for the edited document, both suspended after parseDocument
\* at the same revision, with one extractor run between them.
C20_Witness ==
  /\ \A r \in RequestIds :
       /\ pending[r].stage = "parseDocument"
       /\ pending[r].key = 1
       /\ pending[r].version = docVersion[1]
  /\ pending[1].kind # pending[2].kind
  /\ docVersion[1] > 1
  /\ parses[1] = [version |-> docVersion[1], count |-> 1]

\* C21: every parseDocument that stores an entry leaves its key as the most
\* recently used one, at the document's revision, after the eviction sweep.
C21_WritePromotes ==
  [][\A k \in Keys :
       (last'.op = "parseDocument" /\ last'.key = k /\ parseDocument(k)
          /\ ~CacheHit(parseCache, k, docVersion[k])) =>
         /\ MapHas(parseCache', k)
         /\ MapGet(parseCache', k).version = docVersion[k]
         /\ MapKeys(parseCache')[Len(parseCache')] = k]_vars

\* C22: a cache hit in parseDocument or scheduleRefreshForDocument moves the
\* entry to the most recently used position with its revision and list
\* unchanged and keeps the order of the other entries; touching an absent
\* key changes nothing.
C22_ReadPromotes ==
  [][\A k \in Keys :
       /\ (CacheHit(parseCache, k, docVersion[k])
            /\ last'.key = k
            /\ \/ last'.op = "parseDocument" /\ parseDocument(k)
               \/ last'.op = "scheduleRefreshForDocument" /\ scheduleRefreshForDocument(k)) =>
            /\ Len(parseCache') = Len(parseCache)
            /\ parseCache'[Len(parseCache')] = MapGet(parseCache, k)
            /\ SubSeq(parseCache', 1, Len(parseCache') - 1) =
                 SelectSeq(parseCache, LAMBDA e : e.key # k)
       /\ ~MapHas(parseCache, k) => touchCacheKey(parseCache, k) = parseCache]_vars

\* A hit on the Rust document's entry with at least two background
\* documents cached.
C22_Witness ==
  /\ last.op \in {"parseDocument", "scheduleRefreshForDocument"}
  /\ last.key = 2
  /\ ~last.parsed
  /\ last.op = "parseDocument" => last.evicted = {}
  /\ last.op = "scheduleRefreshForDocument" => last.refreshes = 1
  /\ Len(parseCache) >= 3
  /\ parseCache[Len(parseCache)].key = 2
  /\ parseCache[1].key = FirstBackground

\* C24: for the cache as it stands and a capacity the settings can give (the
\* current one, or the floor a reload can lower it to), enforceCacheLimit
\* returns the most recently used entries up to the capacity, in order,
\* changes nothing when the size is within the capacity, and applied again
\* changes nothing more.
C24_EvictionSweep ==
  \A cap \in {maxCacheEntries, MinCacheEntries} :
    LET swept == enforceCacheLimit(parseCache, cap)
    IN /\ Len(swept) = Min(Len(parseCache), cap)
       /\ swept = SubSeq(parseCache, Len(parseCache) - Len(swept) + 1, Len(parseCache))
       /\ Len(parseCache) <= cap => swept = parseCache
       /\ enforceCacheLimit(swept, cap) = swept
       /\ enforceCacheLimit(<<>>, cap) = <<>>

\* A reload has lowered the capacity and its sweep removed an entry.
C24_Witness ==
  /\ last.op = "reloadSettings"
  /\ last.evicted # {}
  /\ Len(parseCache) = maxCacheEntries

\* C25: the masked text has the length of the parse source and line feeds
\* at exactly the same offsets.
C25_MaskingKeepsLines ==
  output.op = "stripper" =>
    /\ Len(output.value) = Len(content)
    /\ \A i \in 1..Len(content) : (output.value[i] = LF) <=> (content[i] = LF)

\* C26: the segment list is never empty and comes from one strategy only,
\* the first in the order Vue, Svelte, script pattern, whole document that
\* yields a segment; the whole document, at offset 0 and line 0, is the only
\* segment exactly when no other strategy yields one.
C26_SegmentationPriority ==
  output.op = "segments" =>
    LET segs == output.value
        vue == CompilerSegments(content.text, "vue", content.vue)
        svelte == CompilerSegments(content.text, "svelte", content.svelte)
        script == IF HasScriptTag(content.text)
                  THEN ScriptSegments(content.text, 1) ELSE <<>>
        strategy == IF vue # <<>> THEN "vue"
                    ELSE IF svelte # <<>> THEN "svelte"
                    ELSE IF script # <<>> THEN "script"
                    ELSE "whole"
    IN /\ segs # <<>>
       /\ \A i \in 1..Len(segs) : segs[i].by = strategy
       /\ strategy = "whole" =>
            segs = <<[by |-> "whole", text |-> content.text,
                      baseOffset |-> 1 - 1, baseLine |-> 1 - 1]>>

\* C28: the parent relation of the records parseWithAst returns has no
\* cycle: there is no non-empty set of records each of whose parents is the
\* name of a record of the set.
C28_AcyclicParents ==
  output.op = "parseWithAst" =>
    \A S \in SUBSET Range(output.value) :
      S # {} => \E r \in S : \A p \in S : r.parent # p.name

\* C30: a def is nested in every earlier class or def header that is
\* indented less than it when every line in between is blank or indented
\* deeper than that header; its depth is the number of such headers, and when
\* that is at most pythonMaxDepth it is emitted with the nearest of them as
\* parent.
BlockHeaders(lines, i) ==
  {j \in 1..(i - 1) :
     /\ lines[j].kind \in {"def", "class"}
     /\ lines[j].indent < lines[i].indent
     /\ \A m \in (j + 1)..(i - 1) :
          lines[m].kind = "blank" \/ lines[m].indent > lines[j].indent}
C30_PythonBlankLines ==
  output.op = "PythonParser.parse" =>
    \A i \in 1..Len(content.lines) :
      LET H == BlockHeaders(content.lines, i)
      IN (content.lines[i].kind = "def" /\ H # {}) =>
           IF Cardinality(H) <= content.maxDepth
           THEN Record(PyNames[i], i - 1, PyNames[Innermost(H)], "undefined")
                  \in Range(output.value)
           ELSE \A r \in Range(output.value) : r.name # PyNames[i]

\* C23: a parseDocument miss whose extractor throws or returns a non-list
\* returns the empty list and stores an empty entry at the document's
\* revision; a request at a cached revision, whatever the extractor would
\* do, returns the stored list without calling the extractor.
C23_FailuresCached ==
  [][\A k \in LruKeys :
       /\ \A raw \in {"nonlist", "throws"} :
            (~CacheHit(parseCache, k, docVersion[k]) /\ RequestRaw(k, raw)) =>
              /\ last'.result = <<>>
              /\ MapHas(parseCache', k)
              /\ MapGet(parseCache', k) =
                   [key |-> k, version |-> docVersion[k], functions |-> <<>>]
       /\ \A raw \in RawOutcomes :
            (CacheHit(parseCache, k, docVersion[k]) /\ RequestRaw(k, raw)) =>
              /\ ~last'.parsed
              /\ last'.result = MapGet(parseCache, k).functions
              /\ MapGet(parseCache', k) = MapGet(parseCache, k)]_vars

\* A hit on the empty entry a failed extraction left behind: the Rust
\* document has a parser, whose lists are never empty, and is cached empty
\* at its second revision.
C23_Witness ==
  /\ last.op = "parseDocument"
  /\ last.key = 2
  /\ ~last.parsed
  /\ last.result = <<>>
  /\ getParser(parsers, LanguageOf(2)) # NoParser
  /\ docVersion[2] > 1
  /\ CacheHit(parseCache, 2, docVersion[2])

\* C29: every cache entry is the unfiltered extraction result of its
\* revision; a change of enabled or filterRegex and the filter step of a
\* request leave the cache as it is; and a request at a cached revision gets
\* the full list from the cache without an extractor run, whatever filter
\* was applied before.
C29_FilterLeavesCache ==
  [][/\ \A k \in KeySet(parseCache') :
          MapGet(parseCache', k).functions =
            IF getParser(parsers, LanguageOf(k)) = NoParser THEN <<>>
            ELSE ParserParse(getParser(parsers, LanguageOf(k)), k,
                             MapGet(parseCache', k).version)
     /\ \A enabled \in BOOLEAN, filterRegex \in FilterPatterns :
          ChangeView(enabled, filterRegex) => parseCache' = parseCache
     /\ \A r \in RequestIds :
          /\ Return(r) => parseCache' = parseCache
          /\ (Opened(r) /\ CacheHit(parseCache, pending[r].key, docVersion[pending[r].key])) =>
               /\ ~last'.parsed
               /\ pending'[r].functions = MapGet(parseCache, pending[r].key).functions
               /\ MapKeys(parseCache') = MapKeys(touchCacheKey(parseCache, pending[r].key))]_vars

\* getChildren returned a filtered list for the TypeScript document, the
\* filter was cleared, and the next request got its list from the cache.
C29_Witness ==
  /\ output.op = "getChildren"
  /\ output.path = "file"
  /\ Len(output.value) < Len(DocNames)
  /\ content = [enabled |-> TRUE, filterRegex |-> ""]
  /\ last.op = "parseDocument"
  /\ ~last.parsed
  /\ pending[1].stage = "parseDocument"
  /\ pending[1].key = 1
  /\ Len(pending[1].functions) = Len(DocNames)

\* C27: a timer armed for a key s ms ago is followed by its callback, which
\* issues the refresh signal for the key, unless the key is closed or a
\* later notification arms a timer for it anew (the age drops); until then
\* the timer only ages, and no further than its delay.  So with no further
\* notification and no close the refresh signal is issued.
C27_RefreshLiveness ==
  \A k \in EditedKeys : \A s \in {i * TickMs : i \in 0..2} :
    [](TimersOf(hostTimers, k) # {} /\ sinceArm[k] = s =>
         <>(\/ last.op = "timerCallback" /\ last.key = k /\ last.refreshes = 1
            \/ last.op = "handleDocumentClosed" /\ last.key = k
            \/ TimersOf(hostTimers, k) # {} /\ sinceArm[k] < s
            \/ \E t \in TimersOf(hostTimers, k) :
                 sinceArm[k] > s /\ sinceArm[k] <= t.delay))

\* The callback of a timer that one notification armed for the edited
\* document, whose cache entry is of an earlier revision, has run.
C27_Witness ==
  /\ last.op = "timerCallback"
  /\ last.key = 1
  /\ last.refreshes = 1
  /\ last.burst = 1
  /\ MapHas(parseCache, 1)
  /\ MapGet(parseCache, 1).version # docVersion[1]

====
